---------------------------- MODULE Spec2Model ----------------------------
(***************************************************************************)
(* A state-machine model of the gas pool core                              *)
(* (src/src/gas_pool/gas_pool_core.rs) and of the chain client it reads    *)
(* through (src/src/sui_client.rs).                                        *)
(*                                                                         *)
(* The orchestrator's two entry points (reserve_gas, execute_transaction)  *)
(* and the expiration task (start_coin_unlock_task) are translated step by *)
(* step: one action per stretch of code between two suspension points.     *)
(* The collaborators whose code is not part of the two source files (the   *)
(* coin store, the usage cap, the signer, the retry macros, the chain) are *)
(* modelled from their contract in spec.md and are marked as such.         *)
(***************************************************************************)
EXTENDS Integers, Sequences, FiniteSets, TLC

(***************************************************************************)
(* Bounds of the model.                                                    *)
(***************************************************************************)
NumCoins == 2       \* gas coins of the sponsor on chain
NumExec == 2        \* execute_transaction calls (each caller calls once)
MaxRes == 2         \* reservations the coin store allocates
InitBal == 1        \* balance of every coin at pool start
MaxGas == 2         \* largest net_gas_usage of a transaction
MaxRefund == 1      \* largest net refund (net_gas_usage = -MaxRefund)
Bits == 4           \* width of the machine integers (u64/i64, scaled down)
MaxStoreFails == 2  \* add_new_coins failures in a row the store may answer
DailyLimit == 0     \* gas_usage_daily_cap given to GasPoolContainer::new

(***************************************************************************)
(* Program constants.                                                      *)
(***************************************************************************)
SignMaxAttempts == 3
SubmitMaxAttempts == 3

Coins == 1..NumCoins
Execs == 1..NumExec
Rids == 1..MaxRes
Mod == 2 ^ Bits
GasUsages == ((0 - MaxRefund)..MaxGas) \ {0}

Sponsor == "sponsor"
Stranger == "stranger"
Addresses == {Sponsor, Stranger}

VARIABLES
    chain,       \* the ledger: coin id -> [alive, ver, bal]
    fullnode,    \* what the fullnode serves: an earlier state of the ledger
    avail,       \* coin store: the available set, a set of GasCoin
    resv,        \* coin store: reservation id -> [state, coins, due]
    usage,       \* usage cap: window_usage
    smashed,     \* metrics: num_smashed_gas_coins of the sponsor
    ex,          \* the execute_transaction calls: locals, position, effects log
    sw,          \* the coin unlock task: position, locals, reservations in hand
    cancelSent,  \* GasPoolContainer dropped: the one-shot signal was sent
    health       \* the debug_check_health call: position, reservation, result

vars == <<chain, fullnode, avail, resv, usage, smashed, ex, sw, cancelSent,
         health>>

(***************************************************************************)
(* Machine integers.  `x as i64` and `x as u64` reinterpret the same bits; *)
(* i64 subtraction wraps in a release build.                               *)
(***************************************************************************)
AsU64(x) == x % Mod

AsI64(x) == IF (x % Mod) >= Mod \div 2 THEN (x % Mod) - Mod ELSE x % Mod

(***************************************************************************)
(* Sets of coins.                                                          *)
(***************************************************************************)
RECURSIVE SumBal(_)
SumBal(S) ==
    IF S = {} THEN 0
    ELSE LET c == CHOOSE x \in S : TRUE IN c.bal + SumBal(S \ {c})

IdsOf(S) == {c.id : c \in S}

RefsOf(S) == {[id |-> c.id, ver |-> c.ver] : c \in S}

MaxVer(S) == CHOOSE v \in {r.ver : r \in S} : \A r \in S : r.ver <= v

MinId(S) == CHOOSE i \in {r.id : r \in S} : \A r \in S : i <= r.id

NoRef == [id |-> 0, ver |-> 0]

(***************************************************************************)
(* Chain client.  get_latest_gas_objects maps every id to Some(coin) when  *)
(* the fullnode serves a gas coin for it and to None otherwise; every      *)
(* caller flattens the values.  The chunks of 50 ids are joined again, so  *)
(* the result is the union over the ids.                                   *)
(***************************************************************************)
try_get_sui_coin_balance(id) ==
    IF fullnode[id].alive
    THEN {[id |-> id, ver |-> fullnode[id].ver, bal |-> fullnode[id].bal]}
    ELSE {}

get_latest_gas_objects(ids) == UNION {try_get_sui_coin_balance(id) : id \in ids}

get_total_gas_coin_balance(ids) == AsU64(SumBal(get_latest_gas_objects(ids)))

(***************************************************************************)
(* Transactions.  A command keeps the two argument positions of the Rust   *)
(* enum: p0 and p1 are the first and the second Argument-carrying field.   *)
(*   MoveCall(call)             p0 = call.arguments                        *)
(*   TransferObjects(p0, p1)    objects, recipient                         *)
(*   SplitCoins(p0, p1)         coin, amounts                              *)
(*   MergeCoins(p0, p1)         target, sources                            *)
(*   MakeMoveVec(_, p0)         elements                                   *)
(*   Publish(_, _)              no Argument                                *)
(*   Upgrade(_, _, _, p1)       upgrade ticket                             *)
(***************************************************************************)
Cmd(k, a, b) == [kind |-> k, p0 |-> a, p1 |-> b]

CommandArgs(c) ==
    CASE c.kind = "MoveCall" -> c.p0
      [] c.kind = "TransferObjects" -> c.p0
      [] c.kind = "SplitCoins" -> c.p0
      [] c.kind = "MergeCoins" -> c.p0 \o c.p1
      [] c.kind = "Publish" -> <<>>
      [] c.kind = "MakeMoveVec" -> c.p0
      [] c.kind = "Upgrade" -> <<>>

RECURSIVE AllArgs(_)
AllArgs(cmds) ==
    IF cmds = <<>> THEN <<>>
    ELSE CommandArgs(Head(cmds)) \o AllArgs(Tail(cmds))

check_transaction_validity(cmds) ==
    LET all_args == AllArgs(cmds)
        uses_gas == \E i \in 1..Len(all_args) : all_args[i] = "GasCoin"
    IN ~uses_gas

is_valid_address(a) == a = Sponsor

TxCmds ==
    { <<>>,
      <<Cmd("SplitCoins", <<"GasCoin">>, <<"Pure">>)>>,
      <<Cmd("MoveCall", <<"Input", "GasCoin">>, <<>>)>>,
      <<Cmd("TransferObjects", <<"GasCoin">>, <<"Input">>)>>,
      <<Cmd("MergeCoins", <<"Input">>, <<"GasCoin">>)>>,
      <<Cmd("Publish", <<>>, <<>>), Cmd("MakeMoveVec", <<"GasCoin">>, <<>>)>>,
      <<Cmd("Upgrade", <<>>, <<"Input">>), Cmd("SplitCoins", <<"Input">>, <<"GasCoin">>)>> }


(***************************************************************************)
(* Coin store (Storage trait): reserve_gas_coins, ready_for_execution,     *)
(* add_new_coins, expire_coins, get_available_coin_count.  Every operation *)
(* is atomic.                                                              *)
(***************************************************************************)
NoReservation == [state |-> "NONE", coins |-> {}, due |-> FALSE]

Allocated == {r \in Rids : resv[r].state # "NONE"}

NextRid == Cardinality(Allocated) + 1

check_usage == usage <= DailyLimit

update_usage(net) == usage + net

reserve_gas_coins(S) ==
    /\ avail' = avail \ S
    /\ resv' = [resv EXCEPT ![NextRid] =
                   [state |-> "ACTIVE", coins |-> S, due |-> FALSE]]

ready_for_execution_ok(owner, rid) ==
    /\ owner = Sponsor
    /\ rid \in Rids
    /\ resv[rid].state = "ACTIVE"

add_new_coins(store, coins) ==
    store \cup {c \in coins : ~\E a \in store : a.id = c.id /\ a.ver = c.ver}

Expirable == {r \in Rids : resv[r].state = "ACTIVE" /\ resv[r].due}

expire_coins_ids(rs) == UNION {IdsOf(resv[r].coins) : r \in rs}

expire_coins_store ==
    [r \in Rids |-> IF r \in Expirable
                    THEN [resv[r] EXCEPT !.state = "EXPIRED"]
                    ELSE resv[r]]

get_available_coin_count == Cardinality(avail)

(***************************************************************************)
(* The ledger.  A transaction is accepted when every payment reference is  *)
(* the live version of its object; the payment coins are smashed into the  *)
(* first one (the lowest id here), which pays net_gas_usage.               *)
(***************************************************************************)
TxValid(payment) ==
    /\ payment # {}
    /\ \A r \in payment : chain[r.id].alive /\ chain[r.id].ver = r.ver

ChainTotal(payment) == SumBal({[id |-> r.id, bal |-> chain[r.id].bal] : r \in payment})

GasObject(payment) == [id |-> MinId(payment), ver |-> MaxVer(payment) + 1]

CanCharge(payment, net) ==
    /\ ChainTotal(payment) - net >= 0
    /\ ChainTotal(payment) - net < Mod \div 2

Executed(payment, net) ==
    [c \in Coins |->
        IF c = MinId(payment)
        THEN [alive |-> TRUE, ver |-> MaxVer(payment) + 1,
              bal |-> ChainTotal(payment) - net]
        ELSE IF c \in {r.id : r \in payment}
        THEN [alive |-> FALSE, ver |-> chain[c].ver, bal |-> 0]
        ELSE chain[c]]

(***************************************************************************)
(* Locals of one execute_transaction call.                                 *)
(***************************************************************************)
NoResp == [ok |-> FALSE, err |-> "none", gas |-> NoRef, net |-> 0]

NoFx == [ready |-> 0, reads |-> 0, signs |-> 0, signed |-> 0, submits |-> 0,
         capUpd |-> 0, addFails |-> 0, adds |-> 0, smashInc |-> 0]

IdleExec ==
    [pc |-> "idle", rid |-> 0, owner |-> Sponsor, payment |-> {}, cmds |-> <<>>,
     total |-> 0, resp |-> NoResp, updated |-> {},
     committed |-> FALSE, result |-> "none", fx |-> NoFx]

Returned(x, res) ==
    [x EXCEPT !.pc = "done", !.result = res, !.payment = {}, !.cmds = <<>>,
              !.total = 0, !.resp = NoResp, !.updated = {}]

Bump(x, f, n) == [x EXCEPT !.fx[f] = @ + n]

Signed(x, o) == Bump(Bump(x, "signs", o.n), "signed", IF o.ok THEN 1 ELSE 0)

(***************************************************************************)
(* retry_with_max_attempts!(op, max): op is tried until it succeeds, at    *)
(* most max times; the outcome is the number of attempts made and whether  *)
(* the last one succeeded.                                                 *)
(***************************************************************************)
RetryOutcomes(max) ==
    {[n |-> k, ok |-> TRUE] : k \in 1..max} \cup {[n |-> max, ok |-> FALSE]}

FirstOrNever(max) == {o \in RetryOutcomes(max) : o.ok => o.n = 1}

Sleeping(pc) ==
    [pc |-> pc, rids |-> {}, unlocked |-> {}, latest |-> {},
     failed |-> FALSE, fails |-> 0]

IdleHealth == [pc |-> "idle", rid |-> 0, gas_coins |-> {}, result |-> "none"]

Init ==
    /\ chain = [c \in Coins |-> [alive |-> TRUE, ver |-> 1, bal |-> InitBal]]
    /\ fullnode = chain
    /\ avail = {[id |-> c, ver |-> 1, bal |-> InitBal] : c \in Coins}
    /\ resv = [r \in Rids |-> NoReservation]
    /\ usage = 0
    /\ smashed = 0
    /\ ex = [e \in Execs |-> IdleExec]
    /\ sw = Sleeping("expire")
    /\ cancelSent = FALSE
    /\ health = IdleHealth

(***************************************************************************)
(* Environment: time and the fullnode catching up with the ledger.         *)
(***************************************************************************)
DeadlinePass(r) ==
    /\ resv[r].state = "ACTIVE"
    /\ ~resv[r].due
    /\ resv' = [resv EXCEPT ![r].due = TRUE]
    /\ UNCHANGED <<chain, fullnode, avail, usage, smashed, ex, sw, cancelSent, health>>

FullnodeSync ==
    /\ fullnode # chain
    /\ fullnode' = chain
    /\ UNCHANGED <<chain, avail, resv, usage, smashed, ex, sw, cancelSent, health>>

(***************************************************************************)
(* Variant of reserve_gas with a fault seeded: the usage cap is not        *)
(* consulted before the store is asked for coins.                          *)
(***************************************************************************)
ReserveGas_NoCapCheck(S) ==
    /\ NextRid \in Rids
    /\ S # {} /\ S \subseteq avail
    /\ SumBal(S) >= 1
    /\ reserve_gas_coins(S)
    /\ UNCHANGED <<chain, fullnode, usage, smashed, ex, sw, cancelSent, health>>

(***************************************************************************)
(* reserve_gas: the usage cap is checked, then the store reserves.  A call *)
(* that fails (cap exceeded, no capacity) changes nothing.                 *)
(***************************************************************************)
ReserveGas(S) ==
    /\ NextRid \in Rids
    /\ check_usage
    /\ S # {} /\ S \subseteq avail
    /\ SumBal(S) >= 1
    /\ reserve_gas_coins(S)
    /\ UNCHANGED <<chain, fullnode, usage, smashed, ex, sw, cancelSent, health>>


(***************************************************************************)
(* execute_transaction, lines 101-116: the two precondition checks and the *)
(* payment ids read from the transaction.  The caller picks the            *)
(* reservation id and builds the transaction: its gas owner, its commands, *)
(* and as payment any object references a reserve_gas call has returned.   *)
(* Calls are numbered in the order they arrive.                            *)
(***************************************************************************)
Payments == SUBSET UNION {RefsOf(resv[r].coins) : r \in Allocated}

ExecCall(e, rid, owner, payment, cmds) ==
    /\ ex[e].pc = "idle"
    /\ \A d \in Execs : d < e => ex[d].pc # "idle"
    /\ LET x == [ex[e] EXCEPT !.rid = rid, !.owner = owner,
                              !.payment = payment, !.cmds = cmds]
       IN ex' = [ex EXCEPT ![e] =
                    IF ~is_valid_address(owner) THEN Returned(x, "UnknownSponsor")
                    ELSE IF ~check_transaction_validity(cmds)
                    THEN Returned(x, "GasCoinMisuse")
                    ELSE [x EXCEPT !.pc = "ready"]]
    /\ UNCHANGED <<chain, fullnode, avail, resv, usage, smashed, sw, cancelSent, health>>

(***************************************************************************)
(* Variants of the ready_for_execution step with a fault seeded:           *)
(*   Unchecked       the store's answer is dropped instead of returned;    *)
(*   ExpiredOk       an expired reservation is treated as still usable;    *)
(*   ReleaseOnError  the error takes the failure path, which reconciles    *)
(*                   and releases the payment coins.                       *)
(***************************************************************************)
ExecReady_Unchecked(e) ==
    /\ ex[e].pc = "ready"
    /\ resv' = IF ready_for_execution_ok(ex[e].owner, ex[e].rid)
               THEN [resv EXCEPT ![ex[e].rid].state = "IN_FLIGHT"]
               ELSE resv
    /\ ex' = [ex EXCEPT ![e] =
                 [Bump(ex[e], "ready", 1) EXCEPT !.pc = "prebal", !.committed = TRUE]]
    /\ UNCHANGED <<chain, fullnode, avail, usage, smashed, sw, cancelSent, health>>

ExecReady_ExpiredOk(e) ==
    /\ ex[e].pc = "ready"
    /\ IF \/ ready_for_execution_ok(ex[e].owner, ex[e].rid)
          \/ resv[ex[e].rid].state = "EXPIRED"
       THEN /\ resv' = IF resv[ex[e].rid].state = "ACTIVE"
                       THEN [resv EXCEPT ![ex[e].rid].state = "IN_FLIGHT"]
                       ELSE resv
            /\ ex' = [ex EXCEPT ![e] =
                         [Bump(ex[e], "ready", 1) EXCEPT !.pc = "prebal",
                                                         !.committed = TRUE]]
       ELSE /\ resv' = resv
            /\ ex' = [ex EXCEPT ![e] =
                         Returned(Bump(ex[e], "ready", 1), "ReservationExpired")]
    /\ UNCHANGED <<chain, fullnode, avail, usage, smashed, sw, cancelSent, health>>

ExecReady_ReleaseOnError(e) ==
    /\ ex[e].pc = "ready"
    /\ IF ready_for_execution_ok(ex[e].owner, ex[e].rid)
       THEN /\ resv' = [resv EXCEPT ![ex[e].rid].state = "IN_FLIGHT"]
            /\ ex' = [ex EXCEPT ![e] =
                         [Bump(ex[e], "ready", 1) EXCEPT !.pc = "prebal",
                                                         !.committed = TRUE]]
       ELSE /\ resv' = resv
            /\ ex' = [ex EXCEPT ![e] =
                         [Bump(ex[e], "ready", 1) EXCEPT
                             !.pc = "reconcile",
                             !.resp = [NoResp EXCEPT !.err = "ReservationExpired"]]]
    /\ UNCHANGED <<chain, fullnode, avail, usage, smashed, sw, cancelSent, health>>

(***************************************************************************)
(* Lines 117-120: ready_for_execution, the commit point; `?` returns the   *)
(* store's error.                                                          *)
(***************************************************************************)
ExecReady(e) ==
    /\ ex[e].pc = "ready"
    /\ IF ready_for_execution_ok(ex[e].owner, ex[e].rid)
       THEN /\ resv' = [resv EXCEPT ![ex[e].rid].state = "IN_FLIGHT"]
            /\ ex' = [ex EXCEPT ![e] =
                         [Bump(ex[e], "ready", 1) EXCEPT !.pc = "prebal",
                                                         !.committed = TRUE]]
       ELSE /\ resv' = resv
            /\ ex' = [ex EXCEPT ![e] =
                         Returned(Bump(ex[e], "ready", 1), "ReservationExpired")]
    /\ UNCHANGED <<chain, fullnode, avail, usage, smashed, sw, cancelSent, health>>

(***************************************************************************)
(* Variant of the pre-execution read with a fault seeded: the call goes on *)
(* to signing without having read the balance of the payment coins.        *)
(***************************************************************************)
ExecPreBalance_Skipped(e) ==
    /\ ex[e].pc = "prebal"
    /\ ex' = [ex EXCEPT ![e] = [ex[e] EXCEPT !.pc = "sign"]]
    /\ UNCHANGED <<chain, fullnode, avail, resv, usage, smashed, sw, cancelSent, health>>

(***************************************************************************)
(* Line 126: the balance of the payment coins before execution, as the     *)
(* fullnode serves it.                                                     *)
(***************************************************************************)
ExecPreBalance(e) ==
    /\ ex[e].pc = "prebal"
    /\ ex' = [ex EXCEPT ![e] =
                 [Bump(ex[e], "reads", 1) EXCEPT
                     !.pc = "sign",
                     !.total = get_total_gas_coin_balance(IdsOf(ex[e].payment))]]
    /\ UNCHANGED <<chain, fullnode, avail, resv, usage, smashed, sw, cancelSent, health>>

(***************************************************************************)
(* Variant of the signing step with a fault seeded: the signer's error     *)
(* leaves execute_transaction at once, past the release of the coins.      *)
(***************************************************************************)
ExecSign_EarlyReturn(e, o) ==
    /\ ex[e].pc = "sign"
    /\ LET x == Signed(ex[e], o)
       IN ex' = [ex EXCEPT ![e] =
                    IF o.ok THEN [x EXCEPT !.pc = "submit"]
                    ELSE Returned(x, "SignerFailed")]
    /\ UNCHANGED <<chain, fullnode, avail, resv, usage, smashed, sw, cancelSent, health>>

(***************************************************************************)
(* Variant of the signing step with a fault seeded: the transaction goes   *)
(* on to submission although no sign attempt succeeded.                    *)
(***************************************************************************)
ExecSign_SubmitAnyway(e, o) ==
    /\ ex[e].pc = "sign"
    /\ ex' = [ex EXCEPT ![e] = [Signed(ex[e], o) EXCEPT !.pc = "submit"]]
    /\ UNCHANGED <<chain, fullnode, avail, resv, usage, smashed, sw, cancelSent, health>>

(***************************************************************************)
(* execute_transaction_impl, lines 203-211: sign_transaction under         *)
(* retry_with_max_attempts!(.., 3); `?` returns the last error.            *)
(***************************************************************************)
ExecSign(e, o) ==
    /\ ex[e].pc = "sign"
    /\ LET x == Signed(ex[e], o)
       IN ex' = [ex EXCEPT ![e] =
                    IF o.ok THEN [x EXCEPT !.pc = "submit"]
                    ELSE [x EXCEPT !.pc = "reconcile",
                                   !.resp = [NoResp EXCEPT !.err = "SignerFailed"]]]
    /\ UNCHANGED <<chain, fullnode, avail, resv, usage, smashed, sw, cancelSent, health>>

(***************************************************************************)
(* Lines 218-223 and SuiClient::execute_transaction:                       *)
(* execute_transaction_block under retry_with_max_attempts!(.., 3).  An    *)
(* attempt fails without touching the ledger, or the ledger executes the   *)
(* transaction and the response carries the effects, or carries none       *)
(* ("No effects", which is not retried).  The fullnode the pool talks to   *)
(* may or may not serve the new state when the response arrives.           *)
(***************************************************************************)
ExecSubmitFail(e) ==
    /\ ex[e].pc = "submit"
    /\ ex' = [ex EXCEPT ![e] =
                 [Bump(ex[e], "submits", SubmitMaxAttempts) EXCEPT
                     !.pc = "reconcile",
                     !.resp = [NoResp EXCEPT !.err = "ExecutionFailed"]]]
    /\ UNCHANGED <<chain, fullnode, avail, resv, usage, smashed, sw, cancelSent, health>>

ExecSubmitOk(e, o, net, effects, seen) ==
    /\ ex[e].pc = "submit"
    /\ o.ok
    /\ TxValid(ex[e].payment)
    /\ CanCharge(ex[e].payment, net)
    /\ chain' = Executed(ex[e].payment, net)
    /\ fullnode' = IF seen THEN chain' ELSE fullnode
    /\ LET x == Bump(ex[e], "submits", o.n)
       IN ex' = [ex EXCEPT ![e] =
                    IF effects
                    THEN [x EXCEPT !.pc = "capupdate",
                                   !.resp = [ok |-> TRUE, err |-> "none",
                                             gas |-> GasObject(ex[e].payment),
                                             net |-> net]]
                    ELSE [x EXCEPT !.pc = "reconcile",
                                   !.resp = [NoResp EXCEPT !.err = "NoEffects"]]]
    /\ UNCHANGED <<avail, resv, usage, smashed, sw, cancelSent, health>>

(***************************************************************************)
(* Variant of the usage update with a fault seeded: the net gas usage is   *)
(* accounted twice.                                                        *)
(***************************************************************************)
ExecUpdateUsage_Twice(e) ==
    /\ ex[e].pc = "capupdate"
    /\ usage' = update_usage(2 * ex[e].resp.net)
    /\ ex' = [ex EXCEPT ![e] = [Bump(ex[e], "capUpd", 2) EXCEPT !.pc = "reconcile"]]
    /\ UNCHANGED <<chain, fullnode, avail, resv, smashed, sw, cancelSent, health>>

(***************************************************************************)
(* Lines 229-235: update_usage with the net gas usage of the effects.      *)
(***************************************************************************)
ExecUpdateUsage(e) ==
    /\ ex[e].pc = "capupdate"
    /\ usage' = update_usage(ex[e].resp.net)
    /\ ex' = [ex EXCEPT ![e] = [Bump(ex[e], "capUpd", 1) EXCEPT !.pc = "reconcile"]]
    /\ UNCHANGED <<chain, fullnode, avail, resv, smashed, sw, cancelSent, health>>

(***************************************************************************)
(* Variant of the reconciliation with a fault seeded: the failure path     *)
(* gives back the payment coins as the fullnode serves them, without       *)
(* dropping those that no longer exist.                                    *)
(***************************************************************************)
ExecReconcile_KeepGone(e) ==
    /\ ex[e].pc = "reconcile"
    /\ ex' = [ex EXCEPT ![e] =
                 [Bump(ex[e], "reads", 1) EXCEPT
                     !.pc = "release",
                     !.updated = {[id |-> i, ver |-> fullnode[i].ver,
                                   bal |-> fullnode[i].bal] :
                                      i \in IdsOf(ex[e].payment)}]]
    /\ UNCHANGED <<chain, fullnode, avail, resv, usage, smashed, sw, cancelSent, health>>

(***************************************************************************)
(* Lines 134-169: the coins to give back.  On success the gas object of    *)
(* the effects with the derived balance; on failure what the fullnode now  *)
(* serves for the payment ids.                                             *)
(***************************************************************************)
NewBalance(total, net) == AsI64(AsI64(total) - net)

SuccessCoins(x) ==
    {[id |-> x.resp.gas.id, ver |-> x.resp.gas.ver,
      bal |-> AsU64(NewBalance(x.total, x.resp.net))]}

ExecReconcile(e) ==
    /\ ex[e].pc = "reconcile"
    /\ ex' = [ex EXCEPT ![e] =
                 IF ex[e].resp.ok
                 THEN [ex[e] EXCEPT !.pc = "release", !.updated = SuccessCoins(ex[e])]
                 ELSE [Bump(ex[e], "reads", 1) EXCEPT
                          !.pc = "release",
                          !.updated = get_latest_gas_objects(IdsOf(ex[e].payment))]]
    /\ UNCHANGED <<chain, fullnode, avail, resv, usage, smashed, sw, cancelSent, health>>

(***************************************************************************)
(* Variant of the smashed-coin count with a fault seeded: every payment    *)
(* coin is counted.                                                        *)
(***************************************************************************)
SmashedCoinCount_Payment(x) == Cardinality(x.payment)

(***************************************************************************)
(* Lines 170-187: release_gas_coins, the smashed-coin metric, the result.  *)
(* The reservation the call made ready is over once its coins are back.    *)
(***************************************************************************)
SmashedCoinCount(x) == Cardinality(x.payment) - Cardinality(x.updated)

Closed(store, rid) == [store EXCEPT ![rid].state = "TERMINAL"]

ExecRelease(e) ==
    /\ ex[e].pc = "release"
    /\ avail' = add_new_coins(avail, ex[e].updated)
    /\ resv' = Closed(resv, ex[e].rid)
    /\ LET n == SmashedCoinCount(ex[e])
           x == [Bump(ex[e], "adds", 1) EXCEPT !.fx.smashInc = IF n > 0 THEN n ELSE 0]
       IN /\ smashed' = IF n > 0 THEN smashed + n ELSE smashed
          /\ ex' = [ex EXCEPT ![e] =
                       Returned(x, IF ex[e].resp.ok THEN "Ok" ELSE ex[e].resp.err)]
    /\ UNCHANGED <<chain, fullnode, usage, sw, cancelSent, health>>

(***************************************************************************)
(* The caller drops the future of execute_transaction while it is          *)
(* suspended at an await: nothing after that await runs.                   *)
(***************************************************************************)
Suspended == {"ready", "prebal", "sign", "submit", "capupdate", "reconcile", "release"}

ExecCancel(e) ==
    /\ ex[e].pc \in Suspended
    /\ ex' = [ex EXCEPT ![e] = [Returned(ex[e], "none") EXCEPT !.pc = "dropped"]]
    /\ UNCHANGED <<chain, fullnode, avail, resv, usage, smashed, sw, cancelSent, health>>

(***************************************************************************)
(* start_coin_unlock_task, lines 319-345, and Drop for GasPoolContainer.   *)
(***************************************************************************)
(***************************************************************************)
(* Variant of the sweeper's expire step with a fault seeded: an error of   *)
(* the store ends the task instead of counting as an empty result.         *)
(***************************************************************************)
SweepExpire_StopOnError(storeOk) ==
    /\ sw.pc = "expire"
    /\ LET unlocked_coins == expire_coins_ids(Expirable)
       IN /\ resv' = IF storeOk THEN expire_coins_store ELSE resv
          /\ sw' = IF ~storeOk THEN Sleeping("stopped")
                   ELSE IF unlocked_coins # {}
                   THEN [Sleeping("lookup") EXCEPT !.rids = Expirable,
                                                   !.unlocked = unlocked_coins]
                   ELSE Sleeping("sleep")
    /\ UNCHANGED <<chain, fullnode, avail, usage, smashed, ex, cancelSent, health>>

SweepExpire(storeOk) ==
    /\ sw.pc = "expire"
    /\ LET expired == IF storeOk THEN Expirable ELSE {}
           unlocked_coins == expire_coins_ids(expired)
       IN /\ resv' = IF storeOk THEN expire_coins_store ELSE resv
          /\ sw' = IF unlocked_coins # {}
                   THEN [Sleeping("lookup") EXCEPT !.rids = expired,
                                                   !.unlocked = unlocked_coins]
                   ELSE [Sleeping("sleep") EXCEPT !.failed = ~storeOk]
    /\ UNCHANGED <<chain, fullnode, avail, usage, smashed, ex, cancelSent, health>>

SweepLookup ==
    /\ sw.pc = "lookup"
    /\ sw' = [sw EXCEPT !.pc = "release",
                        !.latest = get_latest_gas_objects(sw.unlocked)]
    /\ UNCHANGED <<chain, fullnode, avail, resv, usage, smashed, ex, cancelSent, health>>

SweepRelease ==
    /\ sw.pc = "release"
    /\ avail' = add_new_coins(avail, sw.latest)
    /\ sw' = Sleeping("sleep")
    /\ UNCHANGED <<chain, fullnode, resv, usage, smashed, ex, cancelSent, health>>

SweepWake ==
    /\ sw.pc = "sleep"
    /\ sw' = Sleeping("expire")
    /\ UNCHANGED <<chain, fullnode, avail, resv, usage, smashed, ex, cancelSent, health>>

(***************************************************************************)
(* Variant of the sweeper's exit with a fault seeded: the cancellation     *)
(* signal stops the task wherever it is, not only at the select! of lines  *)
(* 338-344.                                                                *)
(***************************************************************************)
SweepCancelled_AnyTime ==
    /\ sw.pc # "stopped"
    /\ cancelSent
    /\ sw' = [sw EXCEPT !.pc = "stopped"]
    /\ UNCHANGED <<chain, fullnode, avail, resv, usage, smashed, ex, cancelSent, health>>

SweepCancelled ==
    /\ sw.pc = "sleep"
    /\ cancelSent
    /\ sw' = [sw EXCEPT !.pc = "stopped"]
    /\ UNCHANGED <<chain, fullnode, avail, resv, usage, smashed, ex, cancelSent, health>>

ContainerDrop ==
    /\ ~cancelSent
    /\ cancelSent' = TRUE
    /\ UNCHANGED <<chain, fullnode, avail, resv, usage, smashed, ex, sw, health>>

(***************************************************************************)
(* release_gas_coins, lines 281-290: add_new_coins under retry_forever!.   *)
(* An attempt the store answers with an error is made again; the store     *)
(* fails at most MaxStoreFails times in a row.                             *)
(***************************************************************************)
ExecReleaseRetry_GiveUp(e) ==
    /\ ex[e].pc = "release"
    /\ ex[e].fx.addFails < MaxStoreFails
    /\ ex' = [ex EXCEPT ![e] = Returned(Bump(ex[e], "addFails", 1), "StoreFailed")]
    /\ UNCHANGED <<chain, fullnode, avail, resv, usage, smashed, sw, cancelSent, health>>

ExecReleaseRetry(e) ==
    /\ ex[e].pc = "release"
    /\ ex[e].fx.addFails < MaxStoreFails
    /\ ex' = [ex EXCEPT ![e] = Bump(ex[e], "addFails", 1)]
    /\ UNCHANGED <<chain, fullnode, avail, resv, usage, smashed, sw, cancelSent, health>>

SweepReleaseRetry ==
    /\ sw.pc = "release"
    /\ sw.fails < MaxStoreFails
    /\ sw' = [sw EXCEPT !.fails = @ + 1]
    /\ UNCHANGED <<chain, fullnode, avail, resv, usage, smashed, ex, cancelSent, health>>

(***************************************************************************)
(* debug_check_health, lines 293-312: reserve_gas for three seconds (`?`   *)
(* returns its error), an empty transaction paid with the reserved coins,  *)
(* one sign_transaction call (`?` returns its error), Ok.                  *)
(***************************************************************************)
CanReserve ==
    /\ NextRid \in Rids
    /\ check_usage
    /\ \E S \in SUBSET avail : S # {} /\ SumBal(S) >= 1

HealthReserve(S) ==
    /\ health.pc = "idle"
    /\ CanReserve
    /\ S # {} /\ S \subseteq avail
    /\ SumBal(S) >= 1
    /\ health' = [health EXCEPT !.pc = "sign", !.rid = NextRid,
                                !.gas_coins = RefsOf(S)]
    /\ reserve_gas_coins(S)
    /\ UNCHANGED <<chain, fullnode, usage, smashed, ex, sw, cancelSent>>

HealthReserveFail ==
    /\ health.pc = "idle"
    /\ ~CanReserve
    /\ health' = [health EXCEPT !.pc = "done", !.result = "ReserveFailed"]
    /\ UNCHANGED <<chain, fullnode, avail, resv, usage, smashed, ex, sw, cancelSent>>

HealthSign(ok) ==
    /\ health.pc = "sign"
    /\ health' = [health EXCEPT !.pc = "done",
                                !.result = IF ok THEN "Ok" ELSE "SignerFailed"]
    /\ UNCHANGED <<chain, fullnode, avail, resv, usage, smashed, ex, sw, cancelSent>>


(***************************************************************************)
(* The steps, grouped.  A caller either pays with exactly the coins of the *)
(* reservation it names (honest) or with any references handed out so far. *)
(***************************************************************************)
CoreCmds == {<<>>, <<Cmd("SplitCoins", <<"GasCoin">>, <<"Pure">>)>>}

Clock ==
    \/ \E S \in SUBSET avail : ReserveGas(S)
    \/ \E r \in Rids : DeadlinePass(r)

Calls(owners, cmdSet, honest) ==
    \E e \in Execs, rid \in Allocated, owner \in owners, cmds \in cmdSet :
        \E payment \in (IF honest THEN {RefsOf(resv[rid].coins)} ELSE Payments) :
            ExecCall(e, rid, owner, payment, cmds)

Runs(outcomes, seenSet) ==
    \/ \E e \in Execs : ExecReady(e)
    \/ \E e \in Execs : ExecPreBalance(e)
    \/ \E e \in Execs, o \in outcomes : ExecSign(e, o)
    \/ \E e \in Execs : ExecSubmitFail(e)
    \/ \E e \in Execs, o \in outcomes, net \in GasUsages,
          effects \in BOOLEAN, seen \in seenSet :
            ExecSubmitOk(e, o, net, effects, seen)
    \/ \E e \in Execs : ExecUpdateUsage(e)
    \/ \E e \in Execs : ExecReconcile(e)
    \/ \E e \in Execs : ExecRelease(e)

Sweeps ==
    \/ \E storeOk \in BOOLEAN : SweepExpire(storeOk)
    \/ SweepLookup
    \/ SweepRelease
    \/ SweepWake

(***************************************************************************)
(* Spec: the pool with arbitrary callers, who may also drop their calls,   *)
(* the sweeper and the clock.  The fullnode serves every transaction as    *)
(* soon as its effects are returned.                                       *)
(***************************************************************************)
Next ==
    \/ Clock
    \/ Calls(Addresses, CoreCmds, FALSE)
    \/ Runs(FirstOrNever(SignMaxAttempts), {TRUE})
    \/ \E e \in Execs : ExecCancel(e)
    \/ Sweeps

Spec == Init /\ [][Next]_vars

(***************************************************************************)
(* SpecLag: honest callers, and a fullnode that may serve an earlier state *)
(* of the ledger until it catches up.                                      *)
(***************************************************************************)
NextLag ==
    \/ Clock
    \/ FullnodeSync
    \/ Calls({Sponsor}, {<<>>}, TRUE)
    \/ Runs(FirstOrNever(SignMaxAttempts), BOOLEAN)
    \/ Sweeps

SpecLag == Init /\ [][NextLag]_vars

(***************************************************************************)
(* SpecTx: honest payments, transactions of every command kind.            *)
(***************************************************************************)
NextTx ==
    \/ Clock
    \/ Calls(Addresses, TxCmds, TRUE)
    \/ Runs(FirstOrNever(SignMaxAttempts), {TRUE})
    \/ Sweeps

SpecTx == Init /\ [][NextTx]_vars

(***************************************************************************)
(* SpecStop: honest callers of the sponsor, and the container is dropped   *)
(* at some moment.  Drop fires the one-shot signal and returns; the        *)
(* sweeper task, whose JoinHandle nobody awaits, sees the signal in the    *)
(* select! at the end of an iteration.  When the sleep has elapsed too,    *)
(* select! may take either branch.                                         *)
(***************************************************************************)
NextStop ==
    \/ Clock
    \/ Calls({Sponsor}, {<<>>}, TRUE)
    \/ Runs(FirstOrNever(SignMaxAttempts), {TRUE})
    \/ Sweeps
    \/ SweepCancelled
    \/ ContainerDrop

SpecStop == Init /\ [][NextStop]_vars

(***************************************************************************)
(* SpecHealth: honest callers of the sponsor, the sweeper, and one         *)
(* debug_check_health call.                                                *)
(***************************************************************************)
NextHealth ==
    \/ Clock
    \/ Calls({Sponsor}, {<<>>}, TRUE)
    \/ Runs(FirstOrNever(SignMaxAttempts), {TRUE})
    \/ Sweeps
    \/ \E S \in SUBSET avail : HealthReserve(S)
    \/ HealthReserveFail
    \/ \E ok \in BOOLEAN : HealthSign(ok)

SpecHealth == Init /\ [][NextHealth]_vars

(***************************************************************************)
(* SpecRetry: honest callers of the sponsor; the signer and the chain may  *)
(* succeed at any attempt the retry macro makes, or at none.               *)
(***************************************************************************)
NextRetry ==
    \/ Clock
    \/ Calls({Sponsor}, {<<>>}, TRUE)
    \/ Runs(RetryOutcomes(SignMaxAttempts), {TRUE})
    \/ Sweeps

SpecRetry == Init /\ [][NextRetry]_vars

(***************************************************************************)
(* SpecLive: honest callers of the sponsor and a coin store that may fail. *)
(* add_new_coins and expire_coins may answer with an error; the store      *)
(* recovers: an add_new_coins that keeps being retried succeeds, and an    *)
(* expire_coins that is called again and again succeeds.  The sweeper's    *)
(* sleep ends and the chain client answers.                                *)
(***************************************************************************)
NextLive ==
    \/ Clock
    \/ Calls({Sponsor}, {<<>>}, TRUE)
    \/ Runs(FirstOrNever(SignMaxAttempts), {TRUE})
    \/ Sweeps
    \/ \E e \in Execs : ExecReleaseRetry(e)
    \/ SweepReleaseRetry

Recovers ==
    /\ \A e \in Execs : WF_vars(ExecRelease(e))
    /\ WF_vars(SweepRelease)
    /\ WF_vars(SweepLookup)
    /\ WF_vars(SweepWake)
    /\ SF_vars(SweepExpire(TRUE))

SpecLive == Init /\ [][NextLive]_vars /\ Recovers

(***************************************************************************)
(* Vocabulary of the claims.                                               *)
(***************************************************************************)
Holding == {r \in Rids : resv[r].state \in {"ACTIVE", "IN_FLIGHT"}}

Holders(id) ==
    Cardinality({a \in avail : a.id = id})
    + Cardinality({r \in Holding : id \in IdsOf(resv[r].coins)})

Called(e) == ex[e].pc # "idle"

Quiet(e) == ex[e].fx.signs = 0 /\ ex[e].fx.submits = 0 /\ ex[e].fx.adds = 0

(***************************************************************************)
(* C1: no double-spend.  In every reachable state every coin id is held    *)
(* at most once: by at most one entry of the available set, or by one      *)
(* reservation that is ACTIVE or IN_FLIGHT.                                *)
(***************************************************************************)
C1_NoDoubleSpend == \A id \in Coins : Holders(id) <= 1

(***************************************************************************)
(* C2: at-most-once execution.  Of two execute_transaction calls that      *)
(* carry the same reservation id at most one passes ready_for_execution,   *)
(* and a call that did not pass it has signed nothing, submitted nothing   *)
(* and given no coins back.                                                *)
(***************************************************************************)
C2_AtMostOnce ==
    /\ \A e1, e2 \in Execs :
          (e1 # e2 /\ Called(e1) /\ Called(e2) /\ ex[e1].rid = ex[e2].rid)
              => ~(ex[e1].committed /\ ex[e2].committed)
    /\ \A e \in Execs : ~ex[e].committed => Quiet(e)

C2_Witness ==
    \E e1, e2 \in Execs :
        /\ e1 # e2
        /\ ex[e1].rid = ex[e2].rid
        /\ ex[e1].committed /\ ex[e1].fx.adds = 1
        /\ ex[e2].pc = "done" /\ ex[e2].result = "ReservationExpired"

(***************************************************************************)
(* C3: ready_for_execution and expiration exclude each other.  A           *)
(* reservation a call has made ready is never one the sweeper expired or   *)
(* has in hand; a call on a reservation the sweeper has expired is not     *)
(* committed and has signed and submitted nothing.                         *)
(***************************************************************************)
C3_ReadyXorExpired ==
    /\ \A e \in Execs :
          ex[e].committed =>
              /\ resv[ex[e].rid].state \in {"IN_FLIGHT", "TERMINAL"}
              /\ ex[e].rid \notin sw.rids
    /\ \A r \in sw.rids : resv[r].state = "EXPIRED"
    /\ \A e \in Execs :
          (Called(e) /\ ex[e].rid \in Rids /\ resv[ex[e].rid].state = "EXPIRED")
              => ~ex[e].committed /\ Quiet(e)

C3_Witness ==
    /\ \E e \in Execs :
          /\ ex[e].pc = "done" /\ ex[e].result = "ReservationExpired"
          /\ resv[ex[e].rid].state = "EXPIRED"
    /\ \E e \in Execs :
          /\ ex[e].committed /\ ex[e].pc = "sign"
          /\ resv[ex[e].rid].due
    /\ sw.pc = "release"

(***************************************************************************)
(* C4: once ready_for_execution has succeeded, execute_transaction returns *)
(* to its caller only from the step that has given the reconciled coins to *)
(* add_new_coins, whatever failed in between: every coin it reconciled is  *)
(* in the available set when the result is returned.                       *)
(***************************************************************************)
C4_ReturnsStep(e) ==
    ex[e].committed /\ ex[e].pc # "done" /\ ex'[e].pc = "done"

C4_ReleaseBeforeReturn ==
    [][\A e \in Execs :
          C4_ReturnsStep(e) =>
              /\ ex[e].pc = "release"
              /\ ex'[e].fx.adds = 1
              /\ \A c \in ex[e].updated :
                    \E a \in avail' : a.id = c.id /\ a.ver = c.ver]_vars

C4_Witness ==
    /\ \E e \in Execs :
          ex[e].committed /\ ex[e].pc = "done" /\ ex[e].result = "SignerFailed"
             /\ ex[e].fx.adds = 1
    /\ \E e \in Execs :
          ex[e].committed /\ ex[e].pc = "done" /\ ex[e].result = "NoEffects"
             /\ ex[e].fx.adds = 1


(***************************************************************************)
(* C5: cancellation safety.  A call that has passed ready_for_execution    *)
(* and has not yet given its coins back is still running towards the       *)
(* release, also when its caller has dropped it.                           *)
(***************************************************************************)
Running == {"prebal", "sign", "submit", "capupdate", "reconcile", "release"}

C5_CancelSafe ==
    \A e \in Execs :
        (ex[e].committed /\ ex[e].fx.adds = 0) => ex[e].pc \in Running

(***************************************************************************)
(* C6: post-expiration reclaim.  When the sweeper ends the tick in which   *)
(* it expired reservations, every coin id expire_coins gave it is in the   *)
(* available set.                                                          *)
(***************************************************************************)
C6_ReclaimedOnTick ==
    [][(sw.pc = "release" /\ sw'.pc = "sleep")
          => sw.unlocked \subseteq IdsOf(avail')]_vars

(***************************************************************************)
(* C7: conservation.  The core creates no coins and loses none: the        *)
(* available coins, the coins held by reservations, the coins the sweeper  *)
(* is returning and the coins counted as smashed are the initial coins.    *)
(***************************************************************************)
RECURSIVE HeldCount(_)
HeldCount(rs) ==
    IF rs = {} THEN 0
    ELSE LET r == CHOOSE x \in rs : TRUE
         IN Cardinality(resv[r].coins) + HeldCount(rs \ {r})

C7_Conservation ==
    get_available_coin_count + HeldCount(Holding) + Cardinality(sw.unlocked)
        + smashed = NumCoins

(***************************************************************************)
(* C8: balance law.  The coin a successful execute_transaction gives back  *)
(* carries pre_balance - net_gas_usage, the difference of the integers.    *)
(***************************************************************************)
C8_BalanceLaw ==
    \A e \in Execs :
        (ex[e].pc = "release" /\ ex[e].resp.ok) =>
            \A c \in ex[e].updated : c.bal = ex[e].total - ex[e].resp.net

(***************************************************************************)
(* C9: a failed ready_for_execution has no further side effect.  The call  *)
(* has returned, having made no chain read, no sign call, no submission,   *)
(* no usage update, no add_new_coins and no metric change; and the step    *)
(* that fails leaves ledger, store, usage cap and metric as they were.     *)
(***************************************************************************)
C9_FailsHere(e) ==
    ex[e].result # "ReservationExpired" /\ ex'[e].result = "ReservationExpired"

C9_FailedReadyIsSilent ==
    /\ [](\A e \in Execs :
            ex[e].result = "ReservationExpired" =>
                ex[e].pc = "done" /\ ex[e].fx = [NoFx EXCEPT !.ready = 1])
    /\ [][\A e \in Execs :
            C9_FailsHere(e) =>
                UNCHANGED <<chain, fullnode, avail, resv, usage, smashed, sw, health>>]_vars

C9_Witness ==
    \E e \in Execs :
        /\ ex[e].pc = "done" /\ ex[e].result = "ReservationExpired"
        /\ ex[e].fx.ready = 1
        /\ resv[ex[e].rid].state = "EXPIRED"

(***************************************************************************)
(* C10: precondition failures come before the commit point.  A call whose  *)
(* gas owner is not a registered sponsor, or whose transaction has the     *)
(* GasCoin pseudo-argument as an argument of any command, never calls      *)
(* ready_for_execution; the sponsor is checked first.                      *)
(***************************************************************************)
HasGasCoin(args) == \E i \in 1..Len(args) : args[i] = "GasCoin"

AnyGasArgument(cmds) ==
    \E i \in 1..Len(cmds) : HasGasCoin(cmds[i].p0) \/ HasGasCoin(cmds[i].p1)

C10_PreconditionsFirst ==
    \A e \in Execs :
        /\ (Called(e) /\ ex[e].owner # Sponsor) =>
               ex[e].result = "UnknownSponsor" /\ ex[e].fx.ready = 0
        /\ (Called(e) /\ AnyGasArgument(ex[e].cmds)) => ex[e].fx.ready = 0
        /\ ex[e].result = "GasCoinMisuse" => ex[e].fx.ready = 0


(***************************************************************************)
(* C11: the usage cap gates reserve_gas only.  While the daily usage is    *)
(* over the limit reserve_gas cannot succeed, no reservation is created    *)
(* and no coin leaves the available set; a call that is past               *)
(* ready_for_execution can still sign and submit, whatever the usage.      *)
(***************************************************************************)
FirstTry == [n |-> 1, ok |-> TRUE]

C11_CapGatesReserveOnly ==
    /\ [](usage > DailyLimit => ~ENABLED (\E S \in SUBSET avail : ReserveGas(S)))
    /\ [][usage > DailyLimit => (Allocated' = Allocated /\ avail \subseteq avail')]_vars
    /\ [](\A e \in Execs :
            /\ ex[e].pc = "sign" => ENABLED ExecSign(e, FirstTry)
            /\ (ex[e].pc = "submit" /\ TxValid(ex[e].payment)
                  /\ CanCharge(ex[e].payment, 1))
                 => ENABLED ExecSubmitOk(e, FirstTry, 1, TRUE, TRUE))

C11_Witness ==
    /\ usage > DailyLimit
    /\ \E e \in Execs :
          /\ ex[e].pc = "submit" /\ ex[e].fx.signs = 1
          /\ TxValid(ex[e].payment) /\ CanCharge(ex[e].payment, 1)


(***************************************************************************)
(* C12: shutdown.  Once Drop of GasPoolContainer has fired the             *)
(* cancellation and returned, the sweeper makes no call to the coin store: *)
(* no expire_coins and no add_new_coins.                                   *)
(***************************************************************************)
SweeperStoreCall ==
    \/ sw.pc = "expire" /\ sw'.pc # "expire"
    \/ sw.pc = "release" /\ sw'.pc # "release"

C12_NoStoreCallAfterDrop == [][cancelSent => ~SweeperStoreCall]_vars

(***************************************************************************)
(* C19: the sweeper exits only at tick boundaries.  It stops only from the *)
(* sleep between two iterations and only on the signal; a signal fired     *)
(* between expire_coins and add_new_coins does not stop that iteration,    *)
(* and when the sweeper has stopped every coin of an expired reservation   *)
(* that still exists on chain is in the pool's books.                      *)
(***************************************************************************)
Stranded(r) ==
    {id \in IdsOf(resv[r].coins) : chain[id].alive /\ Holders(id) = 0}

C19_ExitsAtTickBoundary ==
    /\ [][(sw'.pc = "stopped" /\ sw.pc # "stopped")
            => (sw.pc = "sleep" /\ cancelSent)]_vars
    /\ [][(cancelSent /\ sw.pc \in {"lookup", "release"})
            => sw'.pc \in {sw.pc, "release", "sleep"}]_vars
    /\ [](sw.pc = "stopped" =>
            /\ sw.unlocked = {}
            /\ \A r \in Rids : resv[r].state = "EXPIRED" => Stranded(r) = {})

C19_Witness ==
    /\ sw.pc = "stopped"
    /\ \E r \in Rids :
          /\ resv[r].state = "EXPIRED"
          /\ IdsOf(resv[r].coins) \subseteq IdsOf(avail)


(***************************************************************************)
(* C14: debug_check_health reserves, signs and releases.  When it returns  *)
(* after having reserved, with Ok or with the signer's error, the coins it *)
(* reserved are back in the available set; and it has not called           *)
(* ready_for_execution nor submitted anything: at its return the           *)
(* reservation it made was not made ready by it.                           *)
(***************************************************************************)
HealthReturns == health.pc = "sign" /\ health'.pc = "done"

C14_HealthReleases ==
    [][HealthReturns =>
          /\ {r.id : r \in health.gas_coins} \subseteq IdsOf(avail')
          /\ chain' = chain
          /\ resv'[health.rid].state = resv[health.rid].state]_vars


(***************************************************************************)
(* C15: failure path reconciliation.  When signing or submission has       *)
(* failed after ready_for_execution, the coins given to add_new_coins are  *)
(* the payment coins the chain client still serves, with the version and   *)
(* balance it serves; payment coins it no longer serves are not given      *)
(* back; and the call resolves with the execution error.                   *)
(***************************************************************************)
Served(ids) ==
    {[id |-> i, ver |-> fullnode[i].ver, bal |-> fullnode[i].bal] :
        i \in {j \in ids : fullnode[j].alive}}

FailurePathErrors == {"SignerFailed", "ExecutionFailed", "NoEffects"}

C15_FailurePathReconciles ==
    /\ [][\A e \in Execs :
            (ex[e].pc = "reconcile" /\ ~ex[e].resp.ok /\ ex'[e].pc = "release")
                => ex'[e].updated = Served(IdsOf(ex[e].payment))]_vars
    /\ [][\A e \in Execs :
            (ex[e].pc = "release" /\ ~ex[e].resp.ok /\ ex'[e].pc = "done")
                => /\ ex[e].updated \subseteq avail'
                   /\ avail' \subseteq avail \cup ex[e].updated
                   /\ ex[e].resp.err \in FailurePathErrors
                   /\ ex'[e].result = ex[e].resp.err]_vars

C15_Witness ==
    \E e \in Execs :
        /\ ex[e].pc = "done" /\ ex[e].result = "NoEffects"
        /\ ex[e].fx.adds = 1 /\ ex[e].fx.smashInc = 1

(***************************************************************************)
(* C16: success path smashing.  A successful call with P payment coins     *)
(* gives exactly one coin to add_new_coins, the gas object of the effects, *)
(* and the smashed-coin counter grows by exactly P - 1.                    *)
(***************************************************************************)
C16_SuccessSmashes ==
    [][\A e \in Execs :
          (ex[e].pc = "release" /\ ex[e].resp.ok /\ ex'[e].pc = "done")
              => /\ Cardinality(ex[e].updated) = 1
                 /\ RefsOf(ex[e].updated) = {ex[e].resp.gas}
                 /\ ex[e].updated \subseteq avail'
                 /\ avail' \subseteq avail \cup ex[e].updated
                 /\ smashed' = smashed + Cardinality(ex[e].payment) - 1
                 /\ ex'[e].result = "Ok"]_vars

C16_Witness ==
    /\ smashed = 1
    /\ \E e \in Execs :
          ex[e].pc = "done" /\ ex[e].result = "Ok" /\ ex[e].fx.smashInc = 1

(***************************************************************************)
(* C17: the usage cap is updated exactly once per call whose submission    *)
(* succeeded, with the net gas usage of its effects, after the submission  *)
(* and before the coins are given back; a call whose signing or submission *)
(* failed does not update it.                                              *)
(***************************************************************************)
C17_UsageUpdatedOnce ==
    /\ [](\A e \in Execs :
            /\ ex[e].result = "Ok" => ex[e].fx.capUpd = 1
            /\ ex[e].result \in FailurePathErrors => ex[e].fx.capUpd = 0
            /\ ex[e].fx.capUpd <= 1
            /\ ex[e].fx.capUpd = 1 => ex[e].fx.submits >= 1
            /\ (ex[e].pc \in {"reconcile", "release"} /\ ex[e].resp.ok)
                  => ex[e].fx.capUpd = 1 /\ ex[e].fx.adds = 0)
    /\ [][usage' # usage =>
            \E e \in Execs :
                /\ ex[e].pc = "capupdate" /\ ex'[e].pc = "reconcile"
                /\ usage' = usage + ex[e].resp.net]_vars

C17_Witness ==
    /\ \E e \in Execs :
          ex[e].pc = "done" /\ ex[e].result = "Ok" /\ ex[e].fx.capUpd = 1
    /\ \E e \in Execs :
          ex[e].pc = "done" /\ ex[e].result = "ExecutionFailed"
             /\ ex[e].fx.capUpd = 0


(***************************************************************************)
(* C18: bounded signing.  A call makes at most 3 sign attempts; when all   *)
(* fail it submits nothing, leaves the usage cap alone, gives the payment  *)
(* coins back through the failure path and returns the signer's error;     *)
(* when one succeeds it makes at most 3 submission attempts.               *)
(***************************************************************************)
C18_BoundedSigning ==
    /\ [](\A e \in Execs :
            /\ ex[e].fx.signs <= 3 /\ ex[e].fx.submits <= 3
            /\ ex[e].fx.signed <= 1
            /\ ex[e].fx.submits > 0 => ex[e].fx.signed = 1
            /\ ex[e].pc = "submit" => ex[e].fx.signed = 1
            /\ ex[e].result = "SignerFailed" =>
                  /\ ex[e].fx.signs = 3 /\ ex[e].fx.signed = 0
                  /\ ex[e].fx.submits = 0 /\ ex[e].fx.capUpd = 0
                  /\ ex[e].fx.reads = 2 /\ ex[e].fx.adds = 1)
    /\ [][\A e \in Execs :
            (ex[e].pc = "sign" /\ ex'[e].pc = "reconcile")
                => /\ ex'[e].resp.err = "SignerFailed"
                   /\ ex'[e].fx.signs = 3
                   /\ UNCHANGED <<chain, usage>>]_vars

C18_Witness ==
    /\ \E e \in Execs :
          ex[e].pc = "done" /\ ex[e].result = "SignerFailed" /\ ex[e].fx.adds = 1
    /\ \E e \in Execs :
          ex[e].pc = "done" /\ ex[e].result = "Ok"
             /\ ex[e].fx.signs = 2 /\ ex[e].fx.submits = 3


(***************************************************************************)
(* C13: eventual reconciliation.  A release whose add_new_coins the store  *)
(* refuses is made again, without a limit: every release of               *)
(* execute_transaction and of the sweeper eventually succeeds once the     *)
(* store answers, and the store's error is never the result of             *)
(* execute_transaction, which returns the outcome of the execution.        *)
(***************************************************************************)
Outcome(x) == IF x.resp.ok THEN "Ok" ELSE x.resp.err

C13_EventualReconciliation ==
    /\ \A e \in Execs :
          (ex[e].pc = "release") ~> (ex[e].pc = "done" /\ ex[e].fx.adds = 1)
    /\ (sw.pc = "release") ~> (sw.pc = "sleep")
    /\ [][\A e \in Execs :
            ex[e].pc = "release" =>
                \/ ex'[e] = ex[e]
                \/ ex'[e] = Bump(ex[e], "addFails", 1) /\ avail' = avail
                \/ /\ ex'[e].pc = "done"
                   /\ ex'[e].result = Outcome(ex[e])
                   /\ ex[e].updated \subseteq avail']_vars

C13_Witness ==
    /\ \E e \in Execs :
          /\ ex[e].pc = "done" /\ ex[e].result = "Ok"
          /\ ex[e].fx.addFails = MaxStoreFails /\ ex[e].fx.adds = 1
    /\ sw.pc = "release" /\ sw.fails = MaxStoreFails

(***************************************************************************)
(* C20: an error of expire_coins never stops the sweeper.  The tick in     *)
(* which the store fails makes no chain lookup and no add_new_coins and    *)
(* goes to sleep; the next tick calls expire_coins again, so a reservation *)
(* past its deadline is reclaimed once the store answers.                  *)
(***************************************************************************)
ExpireFails ==
    /\ sw.pc = "expire" /\ sw'.pc # "expire"
    /\ Expirable # {} /\ resv' = resv

C20_ExpireErrorSwallowed ==
    /\ [][ExpireFails =>
            /\ sw' = [Sleeping("sleep") EXCEPT !.failed = TRUE]
            /\ avail' = avail]_vars
    /\ [](sw.failed => sw.pc = "sleep" /\ sw.latest = {} /\ sw.unlocked = {})
    /\ (sw.pc = "sleep") ~> (sw.pc = "expire")
    /\ \A r \in Rids :
          (resv[r].state = "ACTIVE" /\ resv[r].due)
              ~> \/ resv[r].state \in {"IN_FLIGHT", "TERMINAL"}
                 \/ /\ resv[r].state = "EXPIRED"
                    /\ r \notin sw.rids
                    /\ Stranded(r) = {}

C20_Witness ==
    /\ sw.pc = "sleep" /\ sw.failed
    /\ \E r \in Rids : resv[r].state = "ACTIVE" /\ resv[r].due
    /\ \E r \in Rids : resv[r].state = "EXPIRED"


(***************************************************************************)
(* C21: ordering inside execute_transaction.  The balance of the payment   *)
(* coins is read after ready_for_execution has succeeded and before the    *)
(* first sign or submission attempt; add_new_coins is called after the     *)
(* outcome of the submission is known; a successful call has made every    *)
(* step, once and in this order.                                           *)
(***************************************************************************)
FirstRead(e) == ex[e].fx.reads = 0 /\ ex'[e].fx.reads = 1

GivesBack(e) == ex[e].fx.adds = 0 /\ ex'[e].fx.adds = 1

C21_StepsInOrder ==
    /\ [][\A e \in Execs :
            /\ FirstRead(e) =>
                  /\ ex[e].committed /\ ex[e].fx.ready = 1
                  /\ ex[e].fx.signs = 0 /\ ex[e].fx.submits = 0
            /\ (ex[e].fx.signs = 0 /\ ex'[e].fx.signs > 0) => ex[e].fx.reads = 1
            /\ (ex[e].fx.submits = 0 /\ ex'[e].fx.submits > 0) =>
                  ex[e].fx.reads = 1 /\ ex[e].fx.signed = 1
            /\ GivesBack(e) =>
                  \/ ex[e].resp.ok /\ ex[e].fx.submits > 0 /\ ex[e].fx.capUpd = 1
                  \/ ex[e].resp.err \in FailurePathErrors]_vars
    /\ [](\A e \in Execs :
            ex[e].result = "Ok" =>
                /\ ex[e].fx.ready = 1 /\ ex[e].fx.reads = 1
                /\ ex[e].fx.signed = 1 /\ ex[e].fx.submits >= 1
                /\ ex[e].fx.capUpd = 1 /\ ex[e].fx.adds = 1)

C21_Witness ==
    \E e \in Execs :
        /\ ex[e].pc = "done" /\ ex[e].result = "Ok"
        /\ ex[e].fx.reads = 1 /\ ex[e].fx.adds = 1 /\ ex[e].fx.smashInc = 1

(***************************************************************************)
(* C22: on the success path, once the fullnode serves the new version of   *)
(* the gas object, the balances it serves for the payment coins sum to the *)
(* derived balance the call is about to store in the pool.                 *)
(***************************************************************************)
ServesNewGasObject(x) ==
    /\ fullnode[x.resp.gas.id].alive
    /\ fullnode[x.resp.gas.id].ver = x.resp.gas.ver

C22_DerivedEqualsOnChain ==
    \A e \in Execs :
        (ex[e].pc = "release" /\ ex[e].resp.ok /\ ServesNewGasObject(ex[e])) =>
            \A c \in ex[e].updated :
                get_total_gas_coin_balance(IdsOf(ex[e].payment)) = c.bal

(***************************************************************************)
(* C23: execute_transaction only moves the coins of the reservation it was *)
(* given.  For every call that has passed ready_for_execution, the object  *)
(* ids of the transaction's payment are exactly the coins held by the      *)
(* reservation the call names, so a transaction that was signed and        *)
(* executed on chain paid with exactly those coins.                        *)
(***************************************************************************)
C23_PaymentIsReservation ==
    \A e \in Execs :
        (ex[e].committed /\ ex[e].pc \in Running /\ ex[e].resp.ok) =>
            IdsOf(ex[e].payment) = IdsOf(resv[ex[e].rid].coins)

=============================================================================
